---- MODULE Spec2Model ----
(***************************************************************************)
(* Model of the Synth core: the MidiController (capture thread, event     *)
(* queue, reducer, destructor), the AudioDevice (play / playSamples /     *)
(* xrun_recovery) and the Oscillator.                                      *)
(*                                                                         *)
(* Numbers that are doubles in the source are kept as fixed-point          *)
(* integers: a velocity or control value is a count of 1/127ths, a pitch  *)
(* bend a count of 1/8192ths, a frequency a count of millihertz; in the   *)
(* Oscillator a phase is a count of 1/44100ths of a turn, a frequency a   *)
(* count of Hz, a pitch a count of 1/14ths and a sample a count of        *)
(* thousandths.                                                            *)
(***************************************************************************)
EXTENDS Integers, Sequences, FiniteSets, TLC

\* ------------------------------------------------------------------------
\* Bounds of the model
\* ------------------------------------------------------------------------
MaxEvents == 2
MaxStale == 1
MaxPeriodSize == 2
MaxLength == 8
MaxPeriods == 3
MaxRetries == 1
MaxResumes == 2
MaxNexts == 2

\* ------------------------------------------------------------------------
\* Program constants
\* ------------------------------------------------------------------------
A4Note == 69
SilenceMilliHz == -1000
channels == 2
format_width == 16
SampleBytes == 2
NegEAGAIN == -11
NegEPIPE == -32
NegESTRPIPE == -86
NegEIO == -5
\* Oscillator: a phase or phase increment is a count of 1/44100ths of a
\* turn, so that 2 pi is 44100 and pi is 22050
TWOPI == 44100
PI == 22050
\* Oscillator::rate as initialised
DefaultRate == 44100

\* ------------------------------------------------------------------------
\* Raw sequencer events (snd_seq_event_t) the MIDI input can deliver
\* ------------------------------------------------------------------------
RawEvent(t, n, v, p, c) ==
  [type |-> t, note |-> n, velocity |-> v, param |-> p, value |-> c]

RawEvents ==
  {RawEvent("SND_SEQ_EVENT_NOTEON", 60, 100, 0, 0),
   RawEvent("SND_SEQ_EVENT_NOTEON", 72, 64, 0, 0),
   RawEvent("SND_SEQ_EVENT_NOTEON", 60, 0, 0, 0),
   RawEvent("SND_SEQ_EVENT_NOTEOFF", 60, 0, 0, 0),
   RawEvent("SND_SEQ_EVENT_PITCHBEND", 0, 0, 0, 4096),
   RawEvent("SND_SEQ_EVENT_CONTROLLER", 0, 0, 7, 64),
   RawEvent("SND_SEQ_EVENT_PGMCHANGE", 0, 0, 0, 5)}

\* MidiEvent(type, note, control, velocity, pitch)
MidiEvent(t, n, c, v, p) ==
  [type |-> t, note |-> n, control |-> c, velocity |-> v, pitch |-> p]

\* MidiEvent(MIDI_EMPTY): the value nextEvent() starts from
EmptyEvent == MidiEvent("MIDI_EMPTY", 0, 0, 0, 0)

\* _midi_event_process: normalise one raw event.  control and velocity are
\* value/127.0 and pitch is value/8192.0, kept as their numerators.
_midi_event_process(ev) ==
  CASE ev.type = "SND_SEQ_EVENT_PITCHBEND" ->
         MidiEvent("MIDI_PITCHBEND", 0, 0, 0, ev.value)
    [] ev.type = "SND_SEQ_EVENT_CONTROLLER" ->
         MidiEvent("MIDI_CONTROL", ev.param, ev.value, 0, 0)
    [] ev.type = "SND_SEQ_EVENT_NOTEON" ->
         IF ev.velocity > 0
           THEN MidiEvent("MIDI_NOTEON", ev.note, 0, ev.velocity, 0)
           ELSE MidiEvent("MIDI_UNHANDLED", 0, 0, 0, 0)
    [] ev.type = "SND_SEQ_EVENT_NOTEOFF" ->
         MidiEvent("MIDI_NOTEOFF", ev.note, 0, 0, 0)
    [] OTHER -> MidiEvent("MIDI_UNHANDLED", 0, 0, 0, 0)

\* 440 * 2^(r/12) in millihertz for r = 0..11 (the fractional part of the
\* exponent of pow(2.0, (note - 69.0) / 12.0))
SemitoneMilliHz ==
  <<440000, 466164, 493883, 523251, 554365, 587330,
    622254, 659255, 698456, 739989, 783991, 830609>>

RECURSIVE Pow2(_)
Pow2(k) == IF k = 0 THEN 1 ELSE 2 * Pow2(k - 1)

\* noteToFrequency: 440.0 * pow(2.0, (note - 69.0) / 12.0), in millihertz
noteToFrequency(n) ==
  LET d == n - A4Note
      semi == d % 12
      q == (d - semi) \div 12
  IN  IF q >= 0 THEN SemitoneMilliHz[semi + 1] * Pow2(q)
                ELSE SemitoneMilliHz[semi + 1] \div Pow2(0 - q)

\* ------------------------------------------------------------------------
\* State
\* ------------------------------------------------------------------------
VARIABLES
  \* MidiController members
  _frequency, _velocity, _pitch, _note, _notes,
  _queue, _eventQueueLock, _eventThreadWorking, _sequencer,
  \* the sequencer: events waiting in the kernel, and those already fetched
  \* into the client's input buffer
  seqFifo, seqInput, arrived,
  \* _midi_event_thread: position and locals (r is the result of the last
  \* snd_seq_event_input)
  tpc, set_pending, events_pending, seq_event, event, staleReads, r,
  \* render thread / owner: position inside process() and the destructor
  rpc, e,
  \* whether the process is still running (exit(1) ends it)
  running,
  \* history: raw events read, events passed to input(), events returned by
  \* nextEvent() (MIDI_EMPTY left out), number of events pushed after the
  \* shutdown flag was cleared
  rawRead, inputSeq, outSeq, pushedAfterShutdown,
  \* history: the raw events in the order the MIDI input delivered them
  delivered,
  \* AudioDevice members: the sample buffer and the negotiated sizes
  samples, period_size, num_samples,
  \* play(): its arguments, loop index and which definition is running
  buffer, length, index, variant,
  \* playSamples(): position, write offset into samples, frames left, the
  \* last result of snd_pcm_writei, would-block results seen in this call
  apc, ptr, count, frames, retries,
  \* the PCM stream: samples accepted by the hardware, number of
  \* snd_pcm_prepare and snd_pcm_resume calls and the result of the last
  \* prepare
  hwLog, prepares, resumes, prepareResult,
  \* history: playSamples calls made, underruns seen, frames of a period
  \* dropped after an underrun or suspend
  periods, xruns, lost,
  \* history: the length of hwLog when the current or last playSamples call
  \* was entered
  hwMark,
  \* Oscillator members and the static sample rate
  _mode, _freq, _oscPitch, _phase, _phaseIncrement, _muted, _lastOut,
  _useNaive, rate,
  \* the value returned by the last next(), the number of next() calls, and
  \* history: the phase of an oscillator that was given the same calls but
  \* never muted
  value, nexts, twinPhase

midiVars ==
  <<_frequency, _velocity, _pitch, _note, _notes,
    _queue, _eventQueueLock, _eventThreadWorking, _sequencer,
    seqFifo, seqInput, arrived,
    tpc, set_pending, events_pending, seq_event, event, staleReads, r,
    rpc, e,
    rawRead, inputSeq, outSeq, pushedAfterShutdown, delivered>>

paramVars == <<_frequency, _velocity, _pitch, _note, _notes>>
histVars == <<rawRead, inputSeq, outSeq, pushedAfterShutdown>>
threadLocals ==
  <<tpc, set_pending, events_pending, seq_event, event, staleReads, r>>
seqVars == <<seqFifo, seqInput, arrived, delivered>>

audioVars ==
  <<samples, period_size, num_samples, buffer, length, index, variant,
    apc, ptr, count, frames, retries, hwLog, prepares, resumes,
    prepareResult, periods, xruns, lost, hwMark>>

oscVars ==
  <<_mode, _freq, _oscPitch, _phase, _phaseIncrement, _muted, _lastOut,
    _useNaive, rate, value, nexts, twinPhase>>

vars == <<midiVars, audioVars, oscVars, running>>

\* Values an int member that no constructor initialises may hold
UninitInts == {0, 60}

\* MidiController::MidiController: state once the thread has been created
MidiInit ==
  /\ _frequency = SilenceMilliHz
  /\ _velocity = 0
  /\ _pitch = 0
  /\ _note \in UninitInts
  /\ _notes = <<>>
  /\ _queue = <<>>
  /\ _eventQueueLock = "free"
  /\ _eventThreadWorking = TRUE
  /\ _sequencer = "open"
  /\ seqFifo = <<>>
  /\ seqInput = <<>>
  /\ arrived = 0
  /\ tpc = "loop"
  /\ set_pending = FALSE
  /\ events_pending = 0
  /\ seq_event = RawEvent("none", 0, 0, 0, 0)
  /\ event = EmptyEvent
  /\ staleReads = 0
  /\ r = 0
  /\ rpc = "idle"
  /\ e = EmptyEvent
  /\ running = TRUE
  /\ rawRead = <<>>
  /\ inputSeq = <<>>
  /\ outSeq = <<>>
  /\ pushedAfterShutdown = 0
  /\ delivered = <<>>

\* No AudioDevice has been constructed
AudioOff ==
  /\ samples = <<>>
  /\ period_size = 0
  /\ num_samples = 0
  /\ buffer = <<>>
  /\ length = 0
  /\ index = 0
  /\ variant = "none"
  /\ apc = "off"
  /\ ptr = 0
  /\ count = 0
  /\ frames = 0
  /\ retries = 0
  /\ hwLog = <<>>
  /\ prepares = 0
  /\ resumes = 0
  /\ prepareResult = 0
  /\ periods = 0
  /\ xruns = 0
  /\ lost = 0
  /\ hwMark = 0

\* fmin(fmax(x, lo), hi)
Clamp(x, lo, hi) == IF x < lo THEN lo ELSE IF x > hi THEN hi ELSE x

\* Variant of setIncrement: the frequency is clamped from below only
setIncrement_NoNyquist(f, p, rt) ==
  LET mag == Pow2(IF p < 0 THEN 0 - p ELSE p) - 1
      pitchModAsFrequency == IF p < 0 THEN 0 - mag ELSE mag
      freq == IF f + pitchModAsFrequency < 0 THEN 0
                                             ELSE f + pitchModAsFrequency
  IN  (freq * TWOPI) \div rt

\* Oscillator::setIncrement: the new _phaseIncrement.  The pitch p is a
\* count of 1/14ths, so that pow(2.0, fabs(_pitch) * 14.0) - 1 is
\* 2^|p| - 1, negated for a negative pitch; the frequency is clamped to
\* [0, rate / 2] and scaled by TWOPI / rate.
setIncrement(f, p, rt) ==
  LET mag == Pow2(IF p < 0 THEN 0 - p ELSE p) - 1
      pitchModAsFrequency == IF p < 0 THEN 0 - mag ELSE mag
      freq == Clamp(f + pitchModAsFrequency, 0, rt \div 2)
  IN  (freq * TWOPI) \div rt

\* Oscillator::Oscillator
OscInit ==
  /\ _mode = "SQUARE"
  /\ _freq = 440
  /\ _oscPitch = 0
  /\ _phase = 0
  /\ _muted = FALSE
  /\ _lastOut = 0
  /\ _useNaive = FALSE
  /\ rate = DefaultRate
  /\ _phaseIncrement = setIncrement(440, 0, DefaultRate)
  /\ value = 0
  /\ nexts = 0
  /\ twinPhase = 0

Init == MidiInit /\ AudioOff /\ OscInit

\* MidiController::noteOn
noteOn(n) == IF n \in DOMAIN _notes THEN _notes[n] ELSE FALSE

\* _notes[n] = b on the std::map
MapSet(m, n, b) == [k \in (DOMAIN m) \cup {n} |-> IF k = n THEN b ELSE m[k]]

\* ------------------------------------------------------------------------
\* The MIDI input: a raw event arrives at the sequencer
\* ------------------------------------------------------------------------
Arrive ==
  /\ running
  /\ _sequencer = "open"
  /\ arrived < MaxEvents
  /\ \E ev \in RawEvents :
       /\ seqFifo' = Append(seqFifo, ev)
       /\ delivered' = Append(delivered, ev)
  /\ arrived' = arrived + 1
  /\ UNCHANGED <<paramVars, _queue, _eventQueueLock, _eventThreadWorking,
                 _sequencer, seqInput, threadLocals, rpc, e, running,
                 histVars,
                 audioVars, oscVars>>

\* ------------------------------------------------------------------------
\* _midi_event_thread
\* ------------------------------------------------------------------------
\* while (*collecting_events): the loop head, entering a drain pass
EnterPass ==
  /\ set_pending' = FALSE
  /\ events_pending' = 0
  /\ seq_event' = RawEvent("none", 0, 0, 0, 0)
  /\ tpc' = "read"

\* The loop condition reads the flag's current value
ThreadLoop ==
  /\ running
  /\ tpc = "loop"
  /\ IF _eventThreadWorking
       THEN EnterPass
       ELSE tpc' = "done" /\ UNCHANGED <<set_pending, events_pending, seq_event>>
  /\ UNCHANGED <<paramVars, _queue, _eventQueueLock, _eventThreadWorking,
                 _sequencer, seqVars, event, staleReads, r, rpc, e,
                 running, histVars,
                 audioVars, oscVars>>

\* The flag is a plain bool written by the owner without synchronisation:
\* a read racing with the write may still yield the old value, true
ThreadLoopStale ==
  /\ running
  /\ tpc = "loop"
  /\ ~_eventThreadWorking
  /\ staleReads < MaxStale
  /\ staleReads' = staleReads + 1
  /\ EnterPass
  /\ UNCHANGED <<paramVars, _queue, _eventQueueLock, _eventThreadWorking,
                 _sequencer, seqVars, event, r, rpc, e, running,
                 histVars,
                 audioVars, oscVars>>

\* snd_seq_event_input on a non-blocking handle: when the client's input
\* buffer is empty it is refilled from the kernel; -EAGAIN when nothing is
\* there, else the first buffered event.  snd_seq_event_input_pending(seq, 0)
\* is the number of events left in the client's input buffer.  A read that
\* yields an event returns a positive value.  The event read is normalised (the argument of controller->input) before input()
\* is entered.
ThreadRead ==
  /\ running
  /\ tpc = "read"
  /\ LET buf == IF seqInput = <<>> THEN seqFifo ELSE seqInput
         fifo == IF seqInput = <<>> THEN <<>> ELSE seqFifo
     IN  IF buf = <<>>
           THEN \* r == -EAGAIN: break
                /\ r' = NegEAGAIN
                /\ tpc' = "loop"
                /\ UNCHANGED <<seqFifo, seqInput, seq_event, set_pending,
                               events_pending, rawRead, event>>
           ELSE /\ r' = 1
                /\ seq_event' = Head(buf)
                /\ seqInput' = Tail(buf)
                /\ seqFifo' = fifo
                /\ rawRead' = Append(rawRead, Head(buf))
                /\ set_pending' = TRUE
                /\ events_pending' =
                     IF set_pending THEN events_pending ELSE Len(Tail(buf))
                /\ event' = _midi_event_process(Head(buf))
                /\ tpc' = "input_lock"
  /\ UNCHANGED <<paramVars, _queue, _eventQueueLock, _eventThreadWorking,
                 _sequencer, arrived, delivered, staleReads, rpc, e, running,
                 inputSeq,
                 outSeq, pushedAfterShutdown, audioVars, oscVars>>

\* Variant of ThreadReadFail: the failed read is treated like -EAGAIN, the
\* drain pass is left by break
ThreadReadFail_Break ==
  /\ running
  /\ tpc = "read"
  /\ r' = NegEIO
  /\ tpc' = "loop"
  /\ UNCHANGED <<paramVars, _queue, _eventQueueLock, _eventThreadWorking,
                 _sequencer, seqVars, set_pending, events_pending,
                 seq_event, event, staleReads, rpc, e, histVars,
                 audioVars, oscVars, running>>

\* snd_seq_event_input returns a negative value other than -EAGAIN: exit(1)
ThreadReadFail ==
  /\ running
  /\ tpc = "read"
  /\ r' = NegEIO
  /\ running' = FALSE
  /\ UNCHANGED <<paramVars, _queue, _eventQueueLock, _eventThreadWorking,
                 _sequencer, seqVars, tpc, set_pending, events_pending,
                 seq_event, event, staleReads, rpc, e, histVars,
                 audioVars, oscVars>>

\* MidiController::input: pthread_mutex_lock
input_lock ==
  /\ running
  /\ tpc = "input_lock"
  /\ _eventQueueLock = "free"
  /\ _eventQueueLock' = "capture"
  /\ tpc' = "input_push"
  /\ UNCHANGED <<paramVars, _queue, _eventThreadWorking, _sequencer, seqVars,
                 set_pending, events_pending, seq_event, event, staleReads,
                 r, rpc, e, running, histVars,
                 audioVars, oscVars>>

\* Variant of input_push: input() also folds the event into the parameters
\* on the capture thread
input_push_fold ==
  /\ running
  /\ tpc = "input_push"
  /\ _queue' = Append(_queue, event)
  /\ inputSeq' = Append(inputSeq, event)
  /\ pushedAfterShutdown' =
       IF _eventThreadWorking THEN pushedAfterShutdown
                              ELSE pushedAfterShutdown + 1
  /\ _velocity' = event.velocity
  /\ tpc' = "input_unlock"
  /\ UNCHANGED <<_frequency, _pitch, _note, _notes, _eventQueueLock,
                 _eventThreadWorking, _sequencer,
                 seqVars, set_pending, events_pending, seq_event, event,
                 staleReads, r, rpc, e, running, rawRead, outSeq,
                 audioVars, oscVars>>

\* MidiController::input: _queue.push(event)
input_push ==
  /\ running
  /\ tpc = "input_push"
  /\ _queue' = Append(_queue, event)
  /\ inputSeq' = Append(inputSeq, event)
  /\ pushedAfterShutdown' =
       IF _eventThreadWorking THEN pushedAfterShutdown
                              ELSE pushedAfterShutdown + 1
  /\ tpc' = "input_unlock"
  /\ UNCHANGED <<paramVars, _eventQueueLock, _eventThreadWorking, _sequencer,
                 seqVars, set_pending, events_pending, seq_event, event,
                 staleReads, r, rpc, e, running, rawRead, outSeq,
                 audioVars, oscVars>>

\* MidiController::input: pthread_mutex_unlock, then events_pending-- and
\* the test of the do-while
input_unlock ==
  /\ running
  /\ tpc = "input_unlock"
  /\ _eventQueueLock' = "free"
  /\ events_pending' = events_pending - 1
  /\ tpc' = IF events_pending - 1 > 0 THEN "read" ELSE "loop"
  /\ UNCHANGED <<paramVars, _queue, _eventThreadWorking, _sequencer, seqVars,
                 set_pending, seq_event, event, staleReads, r, rpc, e,
                 running, histVars,
                 audioVars, oscVars>>

ThreadStep ==
  \/ ThreadLoop
  \/ ThreadLoopStale
  \/ ThreadRead
  \/ ThreadReadFail
  \/ input_lock
  \/ input_push
  \/ input_unlock

\* ------------------------------------------------------------------------
\* MidiController::process and MidiController::nextEvent (render thread)
\* ------------------------------------------------------------------------
\* The synthesis parameters as one value
Params ==
  [frequency |-> _frequency, velocity |-> _velocity, pitch |-> _pitch,
   note |-> _note, notes |-> _notes]

\* Variant of Dequeue: returns _queue.back() but still pops the front
Dequeue_Back(q, ev) ==
  IF q = <<>>
    THEN [event |-> ev, queue |-> q]
    ELSE [event |-> q[Len(q)], queue |-> Tail(q)]

\* Variant of Dequeue: drains the whole backlog, returning its last event
Dequeue_Drain(q, ev) ==
  IF q = <<>>
    THEN [event |-> ev, queue |-> q]
    ELSE [event |-> q[Len(q)], queue |-> <<>>]

\* nextEvent, under the lock: if (_queue.empty()) goto unlock;
\* event = _queue.front(); _queue.pop();   (ev is MidiEvent(MIDI_EMPTY))
Dequeue(q, ev) ==
  IF q = <<>>
    THEN [event |-> ev, queue |-> q]
    ELSE [event |-> Head(q), queue |-> Tail(q)]

\* Variant of Reduce: a NOTE_ON is ignored while another note is sounding
Reduce_NoteOnWhenSilent(p, ev) ==
  CASE ev.type = "MIDI_NOTEON" ->
         IF ev.velocity # 0 /\ p.frequency < 0
           THEN [p EXCEPT !.note = ev.note,
                          !.frequency = noteToFrequency(ev.note),
                          !.velocity = ev.velocity,
                          !.notes = MapSet(p.notes, ev.note, TRUE)]
           ELSE p
    [] ev.type = "MIDI_NOTEOFF" ->
         [p EXCEPT !.notes = MapSet(p.notes, ev.note, FALSE),
                   !.frequency = SilenceMilliHz,
                   !.velocity = 0]
    [] ev.type = "MIDI_PITCHBEND" -> [p EXCEPT !.pitch = ev.pitch]
    [] OTHER -> p

\* Variant of Reduce: a NOTE_OFF resets the frequency but not the velocity
Reduce_NoteOffKeepsVelocity(p, ev) ==
  CASE ev.type = "MIDI_NOTEON" ->
         IF ev.velocity # 0
           THEN [p EXCEPT !.note = ev.note,
                          !.frequency = noteToFrequency(ev.note),
                          !.velocity = ev.velocity,
                          !.notes = MapSet(p.notes, ev.note, TRUE)]
           ELSE p
    [] ev.type = "MIDI_NOTEOFF" ->
         [p EXCEPT !.notes = MapSet(p.notes, ev.note, FALSE),
                   !.frequency = SilenceMilliHz]
    [] ev.type = "MIDI_PITCHBEND" -> [p EXCEPT !.pitch = ev.pitch]
    [] OTHER -> p

\* Variant of Reduce: a NOTE_OFF silences only when no other note is held
Reduce_NoteOffWhenLast(p, ev) ==
  CASE ev.type = "MIDI_NOTEON" ->
         IF ev.velocity # 0
           THEN [p EXCEPT !.note = ev.note,
                          !.frequency = noteToFrequency(ev.note),
                          !.velocity = ev.velocity,
                          !.notes = MapSet(p.notes, ev.note, TRUE)]
           ELSE p
    [] ev.type = "MIDI_NOTEOFF" ->
         IF \E m \in DOMAIN p.notes : m # ev.note /\ p.notes[m]
           THEN [p EXCEPT !.notes = MapSet(p.notes, ev.note, FALSE)]
           ELSE [p EXCEPT !.notes = MapSet(p.notes, ev.note, FALSE),
                          !.frequency = SilenceMilliHz,
                          !.velocity = 0]
    [] ev.type = "MIDI_PITCHBEND" -> [p EXCEPT !.pitch = ev.pitch]
    [] OTHER -> p

\* Variant of Reduce: a CONTROL event sets the velocity to its value
Reduce_ControlSetsVelocity(p, ev) ==
  CASE ev.type = "MIDI_NOTEON" ->
         IF ev.velocity # 0
           THEN [p EXCEPT !.note = ev.note,
                          !.frequency = noteToFrequency(ev.note),
                          !.velocity = ev.velocity,
                          !.notes = MapSet(p.notes, ev.note, TRUE)]
           ELSE p
    [] ev.type = "MIDI_NOTEOFF" ->
         [p EXCEPT !.notes = MapSet(p.notes, ev.note, FALSE),
                   !.frequency = SilenceMilliHz,
                   !.velocity = 0]
    [] ev.type = "MIDI_PITCHBEND" -> [p EXCEPT !.pitch = ev.pitch]
    [] ev.type = "MIDI_CONTROL" -> [p EXCEPT !.velocity = ev.control]
    [] OTHER -> p

\* process(): the switch on e.type (MIDI_EMPTY returns before it, and like
\* CONTROL and UNHANDLED changes nothing)
Reduce(p, ev) ==
  CASE ev.type = "MIDI_NOTEON" ->
         IF ev.velocity # 0
           THEN [p EXCEPT !.note = ev.note,
                          !.frequency = noteToFrequency(ev.note),
                          !.velocity = ev.velocity,
                          !.notes = MapSet(p.notes, ev.note, TRUE)]
           ELSE p
    [] ev.type = "MIDI_NOTEOFF" ->
         [p EXCEPT !.notes = MapSet(p.notes, ev.note, FALSE),
                   !.frequency = SilenceMilliHz,
                   !.velocity = 0]
    [] ev.type = "MIDI_PITCHBEND" -> [p EXCEPT !.pitch = ev.pitch]
    [] OTHER -> p

\* process() is entered: _note = -1, then nextEvent() is called
process_begin ==
  /\ running
  /\ rpc = "idle"
  /\ _note' = -1
  /\ e' = EmptyEvent
  /\ rpc' = "next_lock"
  /\ UNCHANGED <<_frequency, _velocity, _pitch, _notes, _queue,
                 _eventQueueLock, _eventThreadWorking, _sequencer, seqVars,
                 threadLocals, running, histVars,
                 audioVars, oscVars>>

\* nextEvent: pthread_mutex_lock
nextEvent_lock ==
  /\ running
  /\ rpc = "next_lock"
  /\ _eventQueueLock = "free"
  /\ _eventQueueLock' = "render"
  /\ rpc' = "next_pop"
  /\ UNCHANGED <<paramVars, _queue, _eventThreadWorking, _sequencer, seqVars,
                 threadLocals, e, running, histVars,
                 audioVars, oscVars>>

\* Variant of nextEvent_pop: on an empty queue nextEvent returns at once,
\* without passing the unlock label
nextEvent_pop_leak ==
  /\ running
  /\ rpc = "next_pop"
  /\ e' = Dequeue(_queue, e).event
  /\ _queue' = Dequeue(_queue, e).queue
  /\ rpc' = IF _queue = <<>> THEN "reduce" ELSE "next_unlock"
  /\ UNCHANGED <<paramVars, _eventQueueLock, _eventThreadWorking, _sequencer,
                 seqVars, threadLocals, running, rawRead, inputSeq,
                 outSeq, pushedAfterShutdown,
                 audioVars, oscVars>>

\* nextEvent: the empty check, front() and pop(), with the lock held
nextEvent_pop ==
  /\ running
  /\ rpc = "next_pop"
  /\ e' = Dequeue(_queue, e).event
  /\ _queue' = Dequeue(_queue, e).queue
  /\ rpc' = "next_unlock"
  /\ UNCHANGED <<paramVars, _eventQueueLock, _eventThreadWorking, _sequencer,
                 seqVars, threadLocals, running, rawRead, inputSeq,
                 outSeq, pushedAfterShutdown,
                 audioVars, oscVars>>

\* nextEvent: unlock: pthread_mutex_unlock, return event
nextEvent_unlock ==
  /\ running
  /\ rpc = "next_unlock"
  /\ _eventQueueLock' = "free"
  /\ outSeq' = IF e.type = "MIDI_EMPTY" THEN outSeq ELSE Append(outSeq, e)
  /\ rpc' = "reduce"
  /\ UNCHANGED <<paramVars, _queue, _eventThreadWorking, _sequencer, seqVars,
                 threadLocals, e, running, rawRead, inputSeq,
                 pushedAfterShutdown,
                 audioVars, oscVars>>

\* process(): the early return on MIDI_EMPTY, else the switch on e.type
process_reduce ==
  /\ running
  /\ rpc = "reduce"
  /\ LET np == Reduce(Params, e)
     IN  /\ _frequency' = np.frequency
         /\ _velocity' = np.velocity
         /\ _pitch' = np.pitch
         /\ _note' = np.note
         /\ _notes' = np.notes
  /\ rpc' = "idle"
  /\ UNCHANGED <<_queue, _eventQueueLock, _eventThreadWorking, _sequencer,
                 seqVars, threadLocals, e, running, histVars,
                 audioVars, oscVars>>

ProcessStep ==
  \/ process_begin
  \/ nextEvent_lock
  \/ nextEvent_pop
  \/ nextEvent_unlock
  \/ process_reduce

\* ------------------------------------------------------------------------
\* MidiController::~MidiController (run by the owner, between process calls)
\* ------------------------------------------------------------------------
\* _eventThreadWorking = false
Destroy_flip ==
  /\ running
  /\ rpc = "idle"
  /\ _eventThreadWorking' = FALSE
  /\ rpc' = "join"
  /\ UNCHANGED <<paramVars, _queue, _eventQueueLock, _sequencer, seqVars,
                 threadLocals, e, running, histVars,
                 audioVars, oscVars>>

\* Variant of Destroy_join: the owner goes on without waiting for the
\* thread function to return
Destroy_join_nowait ==
  /\ running
  /\ rpc = "join"
  /\ rpc' = "close"
  /\ UNCHANGED <<paramVars, _queue, _eventQueueLock, _eventThreadWorking,
                 _sequencer, seqVars, threadLocals, e, running,
                 histVars,
                 audioVars, oscVars>>

\* pthread_join(_eventThread) returns once the thread function has returned
Destroy_join ==
  /\ running
  /\ rpc = "join"
  /\ tpc = "done"
  /\ rpc' = "close"
  /\ UNCHANGED <<paramVars, _queue, _eventQueueLock, _eventThreadWorking,
                 _sequencer, seqVars, threadLocals, e, running,
                 histVars,
                 audioVars, oscVars>>

\* snd_seq_close(_sequencer)
Destroy_close ==
  /\ running
  /\ rpc = "close"
  /\ _sequencer' = "closed"
  /\ rpc' = "destroyed"
  /\ UNCHANGED <<paramVars, _queue, _eventQueueLock, _eventThreadWorking,
                 seqVars, threadLocals, e, running, histVars,
                 audioVars, oscVars>>

DestroyStep ==
  \/ Destroy_flip
  \/ Destroy_join
  \/ Destroy_close

MidiNext ==
  \/ Arrive
  \/ ThreadStep
  \/ ProcessStep
  \/ DestroyStep

\* ------------------------------------------------------------------------
\* AudioDevice
\* ------------------------------------------------------------------------
\* Values found in memory that was never written
Garbage == {-1, 0}

\* First sample values of the buffers a caller passes
Bases == {100}

\* AudioDevice::AudioDevice: the hardware grants a period size; the sample
\* buffer is (period_size * channels * format_width) / 8 bytes of malloc'ed
\* memory holding num_samples int16_t
AudioInit ==
  /\ period_size \in 1..MaxPeriodSize
  /\ num_samples = ((period_size * channels * format_width) \div 8) \div SampleBytes
  /\ \E g \in Garbage : samples = [i \in 1..num_samples |-> g]
  /\ buffer = <<>>
  /\ length = 0
  /\ index = 0
  /\ variant = "none"
  /\ apc = "idle"
  /\ ptr = 0
  /\ count = 0
  /\ frames = 0
  /\ retries = 0
  /\ hwLog = <<>>
  /\ prepares = 0
  /\ resumes = 0
  /\ prepareResult = 0
  /\ periods = 0
  /\ xruns = 0
  /\ lost = 0
  /\ hwMark = 0

\* An AudioDevice next to a MidiController that stays as constructed
AudioSpecInit == MidiInit /\ _note = 0 /\ AudioInit /\ OscInit

\* Number of iterations of play's for loop: index = 0, step, 2*step, ...
\* while index < len
Chunks(len, step) == (len + step - 1) \div step

\* The inner loop of play: samples[i] = buffer[index + i] for i = 0 ..
\* num_samples - 1; a read at or beyond the caller's length yields g
CopyChunk(buf, idx, n, g) ==
  [i \in 1..n |-> IF idx + i <= Len(buf) THEN buf[idx + i] ELSE g]

\* The increment of play's for loop: period_size in the header's template,
\* num_samples in the source file's definition
PlayStep(v) == IF v = "hpp" THEN period_size ELSE num_samples

\* playSamples() is entered: ptr = samples, count = period_size
PlaySamplesEnter ==
  /\ ptr' = 0
  /\ count' = period_size
  /\ frames' = 0
  /\ retries' = 0
  /\ resumes' = 0
  /\ prepareResult' = 0
  /\ periods' = periods + 1
  /\ hwMark' = Len(hwLog)
  /\ apc' = "ps_write"

\* playSamples() returns, to play's loop (index += step) or to the caller;
\* its locals cease to exist
PlaySamplesReturn ==
  /\ ptr' = 0
  /\ count' = 0
  /\ frames' = 0
  /\ retries' = 0
  /\ resumes' = 0
  /\ IF variant = "direct"
       THEN apc' = "idle" /\ variant' = "none" /\ UNCHANGED index
       ELSE /\ apc' = "play_loop"
            /\ index' = index + PlayStep(variant)
            /\ UNCHANGED variant

\* AudioDevice::play, the template of the header: the assert tests
\* length % period_size
play_hpp ==
  /\ running
  /\ apc = "idle"
  /\ \E len \in 0..MaxLength, base \in Bases :
       /\ periods + Chunks(len, PlayStep("hpp")) <= MaxPeriods
       /\ buffer' = [i \in 1..len |-> base + i]
       /\ length' = len
       /\ IF len % period_size = 0
            THEN apc' = "play_loop" /\ UNCHANGED running
            ELSE apc' = "assert_failed" /\ running' = FALSE
  /\ variant' = "hpp"
  /\ index' = 0
  /\ UNCHANGED <<hwMark, samples, period_size, num_samples, ptr, count, frames,
                 retries, hwLog, prepares, resumes, prepareResult, periods,
                 xruns, lost, midiVars, oscVars>>

\* AudioDevice::play of the source file: the assert tests
\* length % num_samples
play_cpp ==
  /\ running
  /\ apc = "idle"
  /\ \E len \in 0..MaxLength, base \in Bases :
       /\ periods + Chunks(len, PlayStep("cpp")) <= MaxPeriods
       /\ buffer' = [i \in 1..len |-> base + i]
       /\ length' = len
       /\ IF len % num_samples = 0
            THEN apc' = "play_loop" /\ UNCHANGED running
            ELSE apc' = "assert_failed" /\ running' = FALSE
  /\ variant' = "cpp"
  /\ index' = 0
  /\ UNCHANGED <<hwMark, samples, period_size, num_samples, ptr, count, frames,
                 retries, hwLog, prepares, resumes, prepareResult, periods,
                 xruns, lost, midiVars, oscVars>>

\* play: one iteration of the for loop (the copy, then the call of
\* playSamples), or its end.  The template reads buffer[index + i] up to
\* index + num_samples - 1, which may lie beyond length: such a read yields
\* whatever is in memory there.
play_loop ==
  /\ running
  /\ apc = "play_loop"
  /\ IF index < length
       THEN /\ \E g \in Garbage :
                 samples' = CopyChunk(buffer, index, num_samples, g)
            /\ PlaySamplesEnter
            /\ UNCHANGED <<buffer, length, index, variant>>
       ELSE /\ apc' = "idle"
            /\ buffer' = <<>>
            /\ length' = 0
            /\ index' = 0
            /\ variant' = "none"
            /\ UNCHANGED <<samples, ptr, count, frames, retries, resumes,
                           prepareResult, periods, hwMark>>
  /\ UNCHANGED <<period_size, num_samples, hwLog, prepares, xruns, lost,
                 midiVars, oscVars, running>>

\* The render loop fills getSamplesBuffer() and calls playSamples() itself
playSamples_call ==
  /\ running
  /\ apc = "idle"
  /\ periods < MaxPeriods
  /\ \E base \in Bases : samples' = [i \in 1..num_samples |-> base + i]
  /\ variant' = "direct"
  /\ PlaySamplesEnter
  /\ UNCHANGED <<period_size, num_samples, buffer, length, index, hwLog,
                 prepares, xruns, lost, midiVars, oscVars, running>>

\* The samples of n frames starting at offset p of the sample buffer
FramesAt(p, n) == SubSeq(samples, p + 1, p + n * channels)

\* Variant of writei_frames: ptr is advanced by frames, not by
\* frames * channels
writei_frames_ptr ==
  /\ running
  /\ apc = "ps_write"
  /\ count > 0
  /\ \E n \in 1..count :
       /\ hwLog' = hwLog \o FramesAt(ptr, n)
       /\ IF count - n > 0
            THEN /\ frames' = n
                 /\ ptr' = ptr + n
                 /\ count' = count - n
                 /\ UNCHANGED <<apc, index, variant, retries, resumes>>
            ELSE PlaySamplesReturn
  /\ UNCHANGED <<hwMark, samples, period_size, num_samples, buffer, length,
                 prepares, prepareResult, periods, xruns, lost, midiVars, oscVars,
                 running>>

\* playSamples: snd_pcm_writei accepts n frames, 1 <= n <= count:
\* ptr += frames * channels; count -= frames; the loop ends at count = 0
writei_frames ==
  /\ running
  /\ apc = "ps_write"
  /\ count > 0
  /\ \E n \in 1..count :
       /\ hwLog' = hwLog \o FramesAt(ptr, n)
       /\ IF count - n > 0
            THEN /\ frames' = n
                 /\ ptr' = ptr + n * channels
                 /\ count' = count - n
                 /\ UNCHANGED <<apc, index, variant, retries, resumes>>
            ELSE PlaySamplesReturn
  /\ UNCHANGED <<hwMark, samples, period_size, num_samples, buffer, length,
                 prepares, prepareResult, periods, xruns, lost, midiVars, oscVars,
                 running>>

\* playSamples: snd_pcm_writei returns -EAGAIN: continue
writei_again ==
  /\ running
  /\ apc = "ps_write"
  /\ count > 0
  /\ retries < MaxRetries
  /\ frames' = NegEAGAIN
  /\ retries' = retries + 1
  /\ UNCHANGED <<hwMark, samples, period_size, num_samples, buffer, length, index,
                 variant, apc, ptr, count, hwLog, prepares, resumes,
                 prepareResult, periods, xruns, lost, midiVars, oscVars, running>>

\* Variant of writei_underrun: after the recovery the loop goes on writing
\* the rest of the period instead of leaving it
writei_underrun_retry ==
  /\ running
  /\ apc = "ps_write"
  /\ count > 0
  /\ frames' = NegEPIPE
  /\ prepares' = prepares + 1
  /\ \E q \in {0, NegEIO} : prepareResult' = q
  /\ xruns' = xruns + 1
  /\ UNCHANGED <<hwMark, samples, period_size, num_samples, buffer, length, index,
                 variant, apc, ptr, count, retries, resumes, hwLog, periods,
                 lost, midiVars, oscVars, running>>

\* playSamples: snd_pcm_writei returns -EPIPE; xrun_recovery calls
\* snd_pcm_prepare once, reports a failure of it only by printf and returns
\* 0; playSamples leaves the loop ("skip one period") and returns
writei_underrun ==
  /\ running
  /\ apc = "ps_write"
  /\ count > 0
  /\ prepares' = prepares + 1
  /\ \E q \in {0, NegEIO} : prepareResult' = q
  /\ xruns' = xruns + 1
  /\ lost' = lost + count
  /\ PlaySamplesReturn
  /\ UNCHANGED <<hwMark, samples, period_size, num_samples, buffer, length, hwLog,
                 periods, midiVars, oscVars, running>>

\* playSamples: snd_pcm_writei returns -ESTRPIPE; xrun_recovery enters its
\* resume loop
writei_suspend ==
  /\ running
  /\ apc = "ps_write"
  /\ count > 0
  /\ frames' = NegESTRPIPE
  /\ apc' = "resume"
  /\ UNCHANGED <<hwMark, samples, period_size, num_samples, buffer, length, index,
                 variant, ptr, count, retries, hwLog, prepares, resumes,
                 prepareResult, periods, xruns, lost, midiVars, oscVars, running>>

\* playSamples: snd_pcm_writei returns another negative value;
\* xrun_recovery returns it and playSamples calls exit(EXIT_FAILURE)
writei_error ==
  /\ running
  /\ apc = "ps_write"
  /\ count > 0
  /\ frames' = NegEIO
  /\ apc' = "exited"
  /\ running' = FALSE
  /\ UNCHANGED <<hwMark, samples, period_size, num_samples, buffer, length, index,
                 variant, ptr, count, retries, hwLog, prepares, resumes,
                 prepareResult, periods, xruns, lost, midiVars, oscVars>>

\* xrun_recovery: snd_pcm_resume returns -EAGAIN: the body of the while is
\* entered.  The loop has no limit of its own; resumes counts the calls up
\* to MaxResumes and stays there.
resume_again ==
  /\ running
  /\ apc = "resume"
  /\ resumes' = IF resumes < MaxResumes THEN resumes + 1 ELSE resumes
  /\ apc' = "sleep"
  /\ UNCHANGED <<hwMark, samples, period_size, num_samples, buffer, length, index,
                 variant, ptr, count, frames, retries, hwLog, prepares,
                 prepareResult, periods, xruns, lost, midiVars, oscVars, running>>

\* xrun_recovery: sleep(1) returns and snd_pcm_resume is called again
resume_sleep ==
  /\ running
  /\ apc = "sleep"
  /\ apc' = "resume"
  /\ UNCHANGED <<hwMark, samples, period_size, num_samples, buffer, length, index,
                 variant, ptr, count, frames, retries, hwLog, prepares,
                 resumes, prepareResult, periods, xruns, lost, midiVars, oscVars,
                 running>>

\* xrun_recovery: snd_pcm_resume returns 0 (return 0), or a negative value
\* other than -EAGAIN (snd_pcm_prepare is called, a failure of it only
\* printed, return 0); playSamples then leaves the loop and returns
resume_done ==
  /\ running
  /\ apc = "resume"
  /\ \E err \in {0, NegEIO} :
       IF err < 0
         THEN /\ prepares' = prepares + 1
              /\ \E q \in {0, NegEIO} : prepareResult' = q
         ELSE UNCHANGED <<prepares, prepareResult>>
  /\ lost' = lost + count
  /\ PlaySamplesReturn
  /\ UNCHANGED <<hwMark, samples, period_size, num_samples, buffer, length, hwLog,
                 periods, xruns, midiVars, oscVars, running>>

AudioNext ==
  \/ play_hpp
  \/ play_cpp
  \/ play_loop
  \/ playSamples_call
  \/ writei_frames
  \/ writei_again
  \/ writei_underrun
  \/ writei_suspend
  \/ writei_error
  \/ resume_again
  \/ resume_sleep
  \/ resume_done

\* ------------------------------------------------------------------------
\* Oscillator.  A sample value is a count of thousandths, rounded down.
\* ------------------------------------------------------------------------
Modes == {"SINE", "SAW", "SQUARE", "TRIANGLE"}

\* Arguments the callers pass: frequencies in Hz, pitch bends in 1/14ths,
\* sample rates
Freqs == {440, 30000}
Pitches == {-14, 0, 1}
Rates == {44100, 22050}

\* Variant of WrapPhase: the test is _phase > TWOPI and is made once
WrapPhase_Strict(p) ==
  IF p > TWOPI THEN p - TWOPI ELSE p

\* while (_phase >= TWOPI) _phase -= TWOPI
RECURSIVE WrapPhase(_)
WrapPhase(p) ==
  IF p >= TWOPI THEN WrapPhase(p - TWOPI) ELSE p

\* sin(_phase) in thousandths: the phase is taken in thousandths of a
\* turn and each half turn is the arc 16y(500 - y) / (5 * 500^2 / 4 ... ),
\* Bhaskara's rational approximation of the sine
SinMilli(p) ==
  LET x == (1000 * p) \div TWOPI
      y == IF x <= 500 THEN x ELSE x - 500
      arc == (16000 * y * (500 - y)) \div (1250000 - 4 * y * (500 - y))
  IN  IF x <= 500 THEN arc ELSE 0 - arc

\* Oscillator::naiveWave
naiveWave(mode, p) ==
  CASE mode = "SINE" -> SinMilli(p)
    [] mode = "SAW" -> (2000 * p) \div TWOPI - 1000
    [] mode = "SQUARE" -> IF p < PI THEN 1000 ELSE -1000
    [] mode = "TRIANGLE" ->
         LET v == (2000 * p) \div TWOPI - 1000
             a == IF v < 0 THEN 0 - v ELSE v
         IN  2 * (a - 500)

\* Oscillator::polyBlep; t and dt are both taken in 1/44100ths of a turn
\* (t = _phase, dt = _phaseIncrement), so that t / dt is unchanged
polyBlep(t, dt) ==
  IF t < dt
    THEN LET x == (1000 * t) \div dt
         IN  x + x - (x * x) \div 1000 - 1000
    ELSE IF t > TWOPI - dt
      THEN LET x == (1000 * (t - TWOPI)) \div dt
           IN  (x * x) \div 1000 + x + x + 1000
      ELSE 0

\* Oscillator::next, lines 105-126: the sample of an oscillator that is
\* not muted.  The leaky integrator's coefficient is _phaseIncrement in
\* radians, 6.283 * inc / TWOPI.
Sample(mode, naive, p, inc, last) ==
  IF naive \/ mode = "SINE"
    THEN naiveWave(mode, p)
    ELSE IF mode = "SAW"
      THEN naiveWave(mode, p) - polyBlep(p, inc)
      ELSE LET v == naiveWave(mode, p) + polyBlep(p, inc)
                      - polyBlep((p + PI) % TWOPI, inc)
               alpha == (6283 * inc) \div TWOPI
           IN  IF mode = "TRIANGLE"
                 THEN (alpha * v + (1000 - alpha) * last) \div 1000
                 ELSE v

\* Oscillator::next.  A muted oscillator returns 0.0 at line 103, before
\* the increment label.
next ==
  /\ running
  /\ nexts < MaxNexts
  /\ nexts' = nexts + 1
  /\ twinPhase' = WrapPhase(twinPhase + _phaseIncrement)
  /\ IF _muted
       THEN /\ value' = 0
            /\ UNCHANGED <<_phase, _lastOut>>
       ELSE /\ value' = Sample(_mode, _useNaive, _phase, _phaseIncrement,
                               _lastOut)
            /\ _lastOut' = IF ~_useNaive /\ _mode = "TRIANGLE"
                             THEN value' ELSE _lastOut
            /\ _phase' = WrapPhase(_phase + _phaseIncrement)
  /\ UNCHANGED <<_mode, _freq, _oscPitch, _phaseIncrement, _muted,
                 _useNaive, rate, midiVars, audioVars, running>>

\* Oscillator::setMode
setMode ==
  /\ running
  /\ \E m \in Modes : _mode' = m
  /\ UNCHANGED <<_freq, _oscPitch, _phase, _phaseIncrement, _muted,
                 _lastOut, _useNaive, rate, value, nexts, twinPhase,
                 midiVars, audioVars, running>>

\* Oscillator::setFreq
setFreq ==
  /\ running
  /\ \E f \in Freqs :
       /\ _freq' = f
       /\ _phaseIncrement' = setIncrement(f, _oscPitch, rate)
  /\ UNCHANGED <<_mode, _oscPitch, _phase, _muted, _lastOut, _useNaive,
                 rate, value, nexts, twinPhase, midiVars, audioVars,
                 running>>

\* Oscillator::setPitch
setPitch ==
  /\ running
  /\ \E p \in Pitches :
       /\ _oscPitch' = p
       /\ _phaseIncrement' = setIncrement(_freq, p, rate)
  /\ UNCHANGED <<_mode, _freq, _phase, _muted, _lastOut, _useNaive, rate,
                 value, nexts, twinPhase, midiVars, audioVars, running>>

\* Oscillator::mute
mute ==
  /\ running
  /\ _muted' = TRUE
  /\ UNCHANGED <<_mode, _freq, _oscPitch, _phase, _phaseIncrement,
                 _lastOut, _useNaive, rate, value, nexts, twinPhase,
                 midiVars, audioVars, running>>

\* Oscillator::unmute
unmute ==
  /\ running
  /\ _muted' = FALSE
  /\ UNCHANGED <<_mode, _freq, _oscPitch, _phase, _phaseIncrement,
                 _lastOut, _useNaive, rate, value, nexts, twinPhase,
                 midiVars, audioVars, running>>

\* Oscillator::useNaive
useNaive ==
  /\ running
  /\ \E b \in BOOLEAN : _useNaive' = b
  /\ UNCHANGED <<_mode, _freq, _oscPitch, _phase, _phaseIncrement, _muted,
                 _lastOut, rate, value, nexts, twinPhase, midiVars,
                 audioVars, running>>

\* Oscillator::setRate: the static rate is replaced; no oscillator's
\* _phaseIncrement is recomputed
setRate ==
  /\ running
  /\ \E rt \in Rates : rate' = rt
  /\ UNCHANGED <<_mode, _freq, _oscPitch, _phase, _phaseIncrement, _muted,
                 _lastOut, _useNaive, value, nexts, twinPhase, midiVars,
                 audioVars, running>>

OscNext ==
  \/ next
  \/ setMode
  \/ setFreq
  \/ setPitch
  \/ mute
  \/ unmute
  \/ useNaive
  \/ setRate

\* An Oscillator next to a MidiController that stays as constructed
OscSpecInit == MidiInit /\ _note = 0 /\ AudioOff /\ OscInit

OscSpec == OscSpecInit /\ [][OscNext]_vars

Next == MidiNext

Spec == Init /\ [][Next]_vars

\* Both threads keep being scheduled: the capture thread takes a step
\* whenever it has one, a process() call or destructor under way is carried
\* on, and a thread waiting in pthread_mutex_lock gets the mutex when it is
\* released again and again.  Nothing is assumed about new process() calls
\* or about when the destructor is called.
FairSpec ==
  /\ Spec
  /\ WF_vars(ThreadStep)
  /\ SF_vars(input_lock)
  /\ SF_vars(nextEvent_lock)
  /\ WF_vars(nextEvent_pop \/ nextEvent_unlock \/ process_reduce)
  /\ WF_vars(Destroy_join \/ Destroy_close)

\* The capture thread, the MIDI input and the destructor, with an owner
\* that makes no process() call.  process() never holds the mutex while the
\* destructor runs (both are run by the owner) and the capture thread reads
\* nothing that process() writes.
ShutdownNext ==
  \/ Arrive
  \/ ThreadStep
  \/ DestroyStep

\* The capture thread takes a step whenever it has one, and a destructor
\* under way is carried on
ShutdownSpec ==
  /\ Init
  /\ [][ShutdownNext]_vars
  /\ WF_vars(ThreadStep)
  /\ WF_vars(Destroy_join \/ Destroy_close)

\* The steps of the capture thread while the flag is set
CollectingStep ==
  \/ ThreadLoop
  \/ ThreadRead
  \/ ThreadReadFail
  \/ input_lock
  \/ input_push
  \/ input_unlock

\* The controller in use: the MIDI input, the capture thread and the
\* process() calls of the render thread, before any destructor call (the
\* destructor does not use the mutex)
LockNext ==
  \/ Arrive
  \/ CollectingStep
  \/ ProcessStep

\* Fairness as in FairSpec
LockSpec ==
  /\ Init
  /\ [][LockNext]_vars
  /\ WF_vars(CollectingStep)
  /\ SF_vars(input_lock)
  /\ SF_vars(nextEvent_lock)
  /\ WF_vars(nextEvent_pop \/ nextEvent_unlock \/ process_reduce)

AudioSpec == AudioSpecInit /\ [][AudioNext]_vars

\* The thread that uses the AudioDevice is never suspended for ever: while
\* it has a step to take it takes one.  Nothing is assumed about what the
\* hardware answers.
FairAudioSpec == AudioSpec /\ WF_vars(AudioNext)

\* Either object on its own: a MidiController and no AudioDevice, or an
\* AudioDevice next to a MidiController that stays as constructed.  The two
\* share no state; exit() in either ends the process.
IoInit == Init \/ AudioSpecInit

IoNext ==
  \/ apc = "off" /\ MidiNext
  \/ AudioNext

IoSpec == IoInit /\ [][IoNext]_vars

\* ------------------------------------------------------------------------
\* Properties of the MidiController
\* ------------------------------------------------------------------------

\* C1: in every interleaving of input() and nextEvent(), the non-EMPTY
\* events returned by nextEvent() are a prefix of the events passed to
\* input(), in the same order; what was passed and not yet returned is
\* exactly the queue content (nothing lost, duplicated or reordered).
C1_FifoPrefix ==
  LET held == IF rpc = "next_unlock" /\ e.type # "MIDI_EMPTY"
                THEN <<e>> ELSE <<>>
  IN  /\ Len(outSeq) <= Len(inputSeq)
      /\ \A i \in 1..Len(outSeq) : outSeq[i] = inputSeq[i]
      /\ inputSeq = outSeq \o held \o _queue

\* C1 witness: two different events were passed to input() and both came
\* out of nextEvent(), in the order they went in
C1_Witness ==
  /\ Len(outSeq) = 2
  /\ outSeq[1] # outSeq[2]
  /\ inputSeq = outSeq
  /\ _queue = <<>>

\* C2: after process() has consumed a NOTE_ON for note n with velocity
\* v > 0, frequency() = noteToFrequency(n) (261.63 Hz for note 60),
\* velocity() = v, noteOn(n) holds and note() = n, whatever was sounding.
C2_NoteOnSetsParams ==
  (rpc = "idle" /\ e.type = "MIDI_NOTEON" /\ e.velocity > 0) =>
    /\ _frequency = noteToFrequency(e.note)
    /\ (e.note = 60 => _frequency \in 261625..261626)
    /\ (e.note = 72 => _frequency \in 523251..523252)
    /\ _velocity = e.velocity
    /\ noteOn(e.note)
    /\ _note = e.note

\* C2 witness: a NOTE_ON was processed while another note was held
C2_Witness ==
  /\ rpc = "idle"
  /\ e.type = "MIDI_NOTEON"
  /\ e.velocity > 0
  /\ _frequency = noteToFrequency(e.note)
  /\ \E m \in DOMAIN _notes : m # e.note /\ noteOn(m)

\* C3: after process() has consumed a NOTE_OFF for note n, noteOn(n) is
\* false, frequency() is the silence sentinel (< 0) and velocity() is 0,
\* also when n is not the sounding note and other notes are still on.
C3_NoteOffSilences ==
  (rpc = "idle" /\ e.type = "MIDI_NOTEOFF") =>
    /\ ~noteOn(e.note)
    /\ _frequency < 0
    /\ _frequency = SilenceMilliHz
    /\ _velocity = 0

\* C3 witness: the NOTE_OFF processed last was for a note other than the
\* one sounding (the NOTE_ON processed just before it), which is still on
C3_Witness ==
  /\ rpc = "idle"
  /\ e.type = "MIDI_NOTEOFF"
  /\ Len(outSeq) >= 2
  /\ outSeq[Len(outSeq)] = e
  /\ outSeq[Len(outSeq) - 1].type = "MIDI_NOTEON"
  /\ outSeq[Len(outSeq) - 1].note # e.note
  /\ noteOn(outSeq[Len(outSeq) - 1].note)
  /\ _frequency < 0

\* C4: a process() call that consumes a PITCHBEND sets pitch to the event's
\* value and leaves frequency, velocity and every notesOn entry unchanged;
\* one that consumes CONTROL or UNHANDLED or finds the queue empty leaves
\* frequency, velocity, pitch and every notesOn entry unchanged.  (The
\* steps of the call before the switch change none of the four either.)
C4_FrameOfProcess ==
  [][ IF rpc = "reduce" /\ rpc' = "idle"
        THEN /\ (e.type = "MIDI_PITCHBEND" =>
                   /\ _pitch' = e.pitch
                   /\ UNCHANGED <<_frequency, _velocity, _notes>>)
             /\ (e.type \in {"MIDI_CONTROL", "MIDI_UNHANDLED", "MIDI_EMPTY"} =>
                   UNCHANGED <<_frequency, _velocity, _pitch, _notes>>)
        ELSE (rpc \in {"idle", "next_lock", "next_pop", "next_unlock"}
                /\ rpc' \in {"next_lock", "next_pop", "next_unlock", "reduce"})
               => UNCHANGED <<_frequency, _velocity, _pitch, _notes>>
    ]_vars

\* C4 witness: a PITCHBEND was processed while a note was sounding, and the
\* note still sounds, with the new pitch
C4_Witness ==
  /\ rpc = "idle"
  /\ e.type = "MIDI_PITCHBEND"
  /\ _pitch = e.pitch
  /\ _pitch # 0
  /\ _frequency > 0
  /\ _velocity > 0
  /\ \E n \in DOMAIN _notes : noteOn(n)

\* C5: a process() call removes exactly one event, the oldest, when the
\* queue is non-empty and none when it is empty, whatever the backlog; no
\* other step of the call touches the queue.
C5_OneEventPerCall ==
  [][ (rpc' # rpc) =>
        IF rpc = "next_pop"
          THEN IF _queue = <<>>
                 THEN _queue' = <<>> /\ e'.type = "MIDI_EMPTY"
                 ELSE /\ Len(_queue') = Len(_queue) - 1
                      /\ _queue' = Tail(_queue)
                      /\ e' = Head(_queue)
          ELSE _queue' = _queue
    ]_vars

\* C5 witness: nextEvent() has just taken one event out of a backlog of
\* two, and the other one is still queued
C5_Witness ==
  /\ rpc = "next_unlock"
  /\ e.type # "MIDI_EMPTY"
  /\ Len(_queue) >= 1
  /\ inputSeq = outSeq \o <<e>> \o _queue

\* C6: a raw note-on with velocity 0 is normalised into a NOTE_OFF for its
\* note, so once process() has consumed it, noteOn(note) is false and the
\* synthesizer is silent.
C6_NoteOnZeroIsNoteOff ==
  /\ \A i \in 1..Len(inputSeq) :
       (rawRead[i].type = "SND_SEQ_EVENT_NOTEON" /\ rawRead[i].velocity = 0)
         => /\ inputSeq[i].type = "MIDI_NOTEOFF"
            /\ inputSeq[i].note = rawRead[i].note
  /\ (/\ rpc = "idle"
      /\ e.type # "MIDI_EMPTY"
      /\ rawRead[Len(outSeq)].type = "SND_SEQ_EVENT_NOTEON"
      /\ rawRead[Len(outSeq)].velocity = 0)
       => /\ ~noteOn(rawRead[Len(outSeq)].note)
          /\ _frequency < 0
          /\ _velocity = 0

\* C7: the capture thread never enqueues an UNHANDLED event, so the queue
\* never holds one and none is ever returned to a process() call.
C7_NeverEnqueuesUnhandled ==
  /\ \A i \in 1..Len(inputSeq) : inputSeq[i].type # "MIDI_UNHANDLED"
  /\ \A i \in 1..Len(_queue) : _queue[i].type # "MIDI_UNHANDLED"
  /\ e.type # "MIDI_UNHANDLED"

\* C8: once the destructor has cleared the shutdown flag, the capture
\* thread appends no further event to the queue.
C8_NoPushAfterShutdown ==
  [][ ~_eventThreadWorking => (_queue' = _queue \/ Len(_queue') < Len(_queue))
    ]_vars

\* C15: when a process() call returns, note() is the note of the event the
\* call consumed if that was a NOTE_ON with velocity > 0 or a NOTE_OFF,
\* and -1 if it consumed any other event or found the queue empty.
C15_NoteOfThisCall ==
  [][ (rpc = "reduce" /\ rpc' = "idle") =>
         _note' = IF \/ (e.type = "MIDI_NOTEON" /\ e.velocity > 0)
                     \/ e.type = "MIDI_NOTEOFF"
                    THEN e.note
                    ELSE -1
    ]_vars

\* C16: frequency, velocity, pitch, the notesOn map and note are written
\* only by process(): every step of the capture thread, input() included,
\* leaves them (and the render thread's own state and the shutdown flag)
\* unchanged; they change only in the two steps of process() that assign
\* them; and no step of the render thread or owner changes a local of the
\* capture thread or the sequencer's input.
C16_ParamsOwnedByProcess ==
  [][ /\ (threadLocals' # threadLocals) =>
            UNCHANGED <<paramVars, rpc, e, _eventThreadWorking, _sequencer,
                        outSeq>>
      /\ (paramVars' # paramVars) =>
            \/ (rpc = "idle" /\ rpc' = "next_lock")
            \/ (rpc = "reduce" /\ rpc' = "idle")
      /\ (rpc' # rpc) =>
            UNCHANGED <<threadLocals, seqVars, rawRead, inputSeq>>
    ]_vars

\* C16 witness: the capture thread has passed a NOTE_ON to input() and
\* completed it while no process() call has been made; the parameters are
\* still those of the constructor
C16_Witness ==
  /\ Len(inputSeq) = 1
  /\ inputSeq[1].type = "MIDI_NOTEON"
  /\ tpc = "loop"
  /\ outSeq = <<>>
  /\ rpc = "idle"
  /\ _frequency = SilenceMilliHz
  /\ _velocity = 0
  /\ _queue = inputSeq

\* ------------------------------------------------------------------------
\* Properties of the AudioDevice
\* ------------------------------------------------------------------------

\* C9: play(buffer, length) with a length that is not a multiple of
\* periodSize x channels is rejected before any hardware write: the call
\* ends in the failed assertion, no single-period write is issued and the
\* sample buffer is not modified.
C9_RejectsBadLength ==
  [][ (/\ apc = "idle"
       /\ variant' \in {"hpp", "cpp"}
       /\ length' % (period_size * channels) # 0)
        => /\ apc' = "assert_failed"
           /\ ~running'
           /\ periods' = periods
           /\ samples' = samples
           /\ hwLog' = hwLog
    ]_vars

\* C10: when snd_pcm_writei returns the underrun error inside playSamples,
\* exactly one snd_pcm_prepare is made, the rest of the period is dropped
\* (nothing more of it reaches the hardware), playSamples returns normally
\* and the process keeps running; no other write result causes a prepare;
\* and every playSamples call starts at offset 0 of the sample buffer with
\* a full period to write.
C10_UnderrunSkipsPeriod ==
  [][ /\ (apc = "ps_write" /\ xruns' = xruns + 1) =>
            /\ prepares' = prepares + 1
            /\ hwLog' = hwLog
            /\ samples' = samples
            /\ lost' = lost + count
            /\ running'
            /\ apc' \in {"idle", "play_loop"}
      /\ (apc = "ps_write" /\ xruns' = xruns) => prepares' = prepares
      /\ xruns' \in {xruns, xruns + 1}
      /\ (apc # "ps_write" /\ apc' = "ps_write") =>
            /\ ptr' = 0
            /\ count' = period_size
    ]_vars

\* C10 witness: an underrun hit a period of which one frame had been
\* written; one prepare was made, and the next playSamples call is at its
\* start with the whole period to write
C10_Witness ==
  /\ xruns = 1
  /\ prepares = 1
  /\ period_size = 2
  /\ lost = 1
  /\ Len(hwLog) = channels
  /\ periods = 2
  /\ apc = "ps_write"
  /\ ptr = 0
  /\ count = period_size
  /\ running

\* C11: when the recovery made for an underrun or a suspend fails (the
\* stream could not be prepared again), playSamples ends the process: it
\* is never back in its caller, or at work on a later period, with the
\* process running and the last snd_pcm_prepare failed.
C11_FailedRecoveryAborts ==
  prepareResult < 0 => ~running

\* C12: the recovery from a suspend ends: once snd_pcm_writei has reported
\* the suspend and xrun_recovery is in its resume loop, the loop is left
\* after finitely many retries, whatever snd_pcm_resume answers, so that
\* playSamples returns or the process is ended.
C12_SuspendRecoveryEnds ==
  (apc = "resume") ~> (apc \notin {"resume", "sleep"})

\* ------------------------------------------------------------------------
\* Properties of both objects
\* ------------------------------------------------------------------------

\* C13: a would-block result never ends the process and is not passed on:
\* after -EAGAIN from snd_seq_event_input the thread is back at its loop
\* head with nothing read or queued, and after -EAGAIN from snd_pcm_writei
\* playSamples is still at the same write with the same offset and count.
\* Any other negative result of snd_seq_event_input, and any negative
\* result of snd_pcm_writei other than -EAGAIN, -EPIPE and -ESTRPIPE, ends
\* the process.
C13_ErrorClassification ==
  [][ /\ (tpc = "read" /\ tpc' # "read" /\ r' = NegEAGAIN) =>
            /\ running'
            /\ tpc' = "loop"
            /\ UNCHANGED <<_queue, rawRead, inputSeq, seqFifo, seqInput>>
      /\ (tpc = "read" /\ r' < 0 /\ r' # NegEAGAIN) => ~running'
      /\ (apc = "ps_write" /\ frames' = NegEAGAIN) =>
            /\ running'
            /\ apc' = "ps_write"
            /\ UNCHANGED <<ptr, count, hwLog, samples, periods>>
      /\ (apc = "ps_write" /\ frames' < 0
            /\ frames' \notin {NegEAGAIN, NegEPIPE, NegESTRPIPE}) =>
            /\ ~running'
            /\ apc' = "exited"
    ]_vars

\* C13 witness: the thread has read one event, the next read returned
\* -EAGAIN, and the thread is back at its loop head with the process running
C13_Witness ==
  /\ r = NegEAGAIN
  /\ tpc = "loop"
  /\ Len(rawRead) = 1
  /\ seqInput = <<>>
  /\ running

\* C21: the queue lock is held by the capture thread exactly while it is
\* at the push or the unlock of input(), and by the render thread exactly
\* while it is at the empty-check-and-pop or the unlock of nextEvent(), on
\* the empty-queue path as on the other; the two are never there together;
\* an event is read and normalised, and an event is reduced, only by a
\* thread that does not hold the lock; between lock and unlock a thread
\* makes a single push or a single pop; a held lock is released again, and
\* a thread waiting for it acquires it (unless exit() ends the process).
C21_LockDiscipline ==
  /\ [] /\ (_eventQueueLock = "capture") <=>
             (tpc \in {"input_push", "input_unlock"})
        /\ (_eventQueueLock = "render") <=>
             (rpc \in {"next_pop", "next_unlock"})
        /\ ~ (/\ tpc \in {"input_push", "input_unlock"}
              /\ rpc \in {"next_pop", "next_unlock"})
  /\ [][ /\ (rawRead' # rawRead \/ event' # event) =>
              _eventQueueLock # "capture"
         /\ (rpc = "reduce" /\ rpc' = "idle") => _eventQueueLock # "render"
         /\ (_eventQueueLock = "free" /\ _eventQueueLock' = "free") =>
              _queue' = _queue
         /\ (_eventQueueLock = "capture" /\ _queue' # _queue) =>
              /\ tpc = "input_push"
              /\ tpc' = "input_unlock"
              /\ _queue' = Append(_queue, event)
         /\ (_eventQueueLock = "render" /\ _queue' # _queue) =>
              /\ rpc = "next_pop"
              /\ rpc' = "next_unlock"
              /\ _queue' = Tail(_queue)
       ]_vars
  /\ (_eventQueueLock # "free") ~> (_eventQueueLock = "free" \/ ~running)
  /\ (tpc = "input_lock") ~> (tpc = "input_push" \/ ~running)
  /\ (rpc = "next_lock") ~> (rpc = "next_pop" \/ ~running)

\* C21 witness: the capture thread waits in input() for the lock while the
\* render thread holds it on the empty-queue path of nextEvent()
C21_Witness ==
  /\ tpc = "input_lock"
  /\ _eventQueueLock = "render"
  /\ rpc = "next_unlock"
  /\ e.type = "MIDI_EMPTY"
  /\ _queue = <<>>
  /\ running

\* The events process() has finished with: those returned by nextEvent(),
\* less the one the call under way has not yet reduced
Processed ==
  IF rpc = "reduce" /\ e.type # "MIDI_EMPTY"
    THEN SubSeq(outSeq, 1, Len(outSeq) - 1)
    ELSE outSeq

\* The note of the last NOTE_ON with velocity > 0 in a sequence of events,
\* -1 when there is none
RECURSIVE LastNoteOn(_)
LastNoteOn(evs) ==
  IF evs = <<>>
    THEN -1
    ELSE LET last == evs[Len(evs)]
         IN  IF last.type = "MIDI_NOTEON" /\ last.velocity # 0
               THEN last.note
               ELSE LastNoteOn(SubSeq(evs, 1, Len(evs) - 1))

\* C24: after any sequence of process() calls, frequency() < 0 exactly
\* when velocity() = 0; and when frequency() >= 0 a NOTE_ON has been
\* processed, frequency() is noteToFrequency(m) for the note m of the most
\* recently processed one, and noteOn(m) is true.
C24_ReducerInvariant ==
  /\ (_frequency < 0) <=> (_velocity = 0)
  /\ (_frequency >= 0) =>
        LET m == LastNoteOn(Processed)
        IN  /\ m # -1
            /\ _frequency = noteToFrequency(m)
            /\ noteOn(m)

\* C24 witness: two NOTE_ONs for different notes have been processed; the
\* frequency is that of the second, and both notes are on
C24_Witness ==
  /\ rpc = "idle"
  /\ Len(outSeq) = 2
  /\ outSeq[1].type = "MIDI_NOTEON"
  /\ outSeq[2].type = "MIDI_NOTEON"
  /\ outSeq[1].note # outSeq[2].note
  /\ _frequency = noteToFrequency(outSeq[2].note)
  /\ _frequency >= 0
  /\ _velocity = outSeq[2].velocity
  /\ noteOn(outSeq[1].note)
  /\ noteOn(outSeq[2].note)

\* ------------------------------------------------------------------------
\* Properties of the Oscillator
\* ------------------------------------------------------------------------

\* C14: next() on a muted oscillator returns 0 and still advances the
\* phase by _phaseIncrement, wrapped into [0, 2 pi); so the phase of an
\* oscillator is at all times that of an oscillator given the same calls
\* but never muted.
C14_MutedAdvancesPhase ==
  [][ (nexts' = nexts + 1 /\ _muted) =>
         /\ value' = 0
         /\ _phase' = WrapPhase(_phase + _phaseIncrement)
         /\ _phase' = twinPhase'
    ]_vars

\* C22 as claimed: in every reachable state _phaseIncrement is
\* 2 pi x clamp(freq + pitchOffset, 0, rate / 2) / rate for the current
\* freq, pitch and shared rate, and so is at most pi.
C22_IncrementOfCurrentRate ==
  /\ _phaseIncrement = setIncrement(_freq, _oscPitch, rate)
  /\ _phaseIncrement <= PI

\* C22 amended: _phaseIncrement is assigned only by setFreq and setPitch
\* (and the constructor), which set it to
\* 2 pi x clamp(freq + pitchOffset, 0, rate / 2) / rate for the rate shared
\* at that moment; setRate and every other call leave it as it is, so it
\* is that formula for some rate that has been in force, not always the
\* current one; it is never negative and never exceeds pi.
C22_IncrementOfRateWhenSet ==
  /\ [] /\ _phaseIncrement >= 0
        /\ _phaseIncrement <= PI
        /\ \E rt \in Rates \cup {DefaultRate} :
             _phaseIncrement = setIncrement(_freq, _oscPitch, rt)
  /\ [][ /\ (_freq' # _freq \/ _oscPitch' # _oscPitch
               \/ _phaseIncrement' # _phaseIncrement) =>
               /\ _phaseIncrement' = setIncrement(_freq', _oscPitch', rate)
               /\ rate' = rate
         /\ (rate' # rate) => _phaseIncrement' = _phaseIncrement
       ]_vars

\* C22 witness: setRate was called after the frequency was set and next()
\* has run since: the increment is still that of 440 Hz at 44100 Hz, half
\* of what the current rate of 22050 Hz gives
C22_Witness ==
  /\ rate = 22050
  /\ _freq = 440
  /\ _oscPitch = 0
  /\ _phaseIncrement = 440
  /\ setIncrement(_freq, _oscPitch, rate) = 880
  /\ nexts >= 1
  /\ _phase = 440

\* C23: in every reachable state of an oscillator, after construction and
\* after every next() call, whatever mode, naive flag, mute flag,
\* frequency, pitch bend and rate were set, 0 <= phase < 2 pi.
C23_PhaseInRange ==
  /\ _phase >= 0
  /\ _phase < TWOPI

\* C23 witness: an oscillator at the Nyquist limit (30000 Hz asked at
\* 44100 Hz, increment pi) has made two next() calls; the second took the
\* phase to 2 pi, which was wrapped to 0
C23_Witness ==
  /\ _phaseIncrement = PI
  /\ nexts = 2
  /\ ~_muted
  /\ twinPhase = 0
  /\ _phase = 0

\* C17: during play(buffer, length) with length a multiple of
\* P = periodSize x channels, the k-th playSamples call carries the buffer
\* elements [k * P, (k + 1) * P): while a period is being written index is
\* a multiple of P, index + P <= length (no element at or beyond length is
\* read) and the sample buffer holds exactly buffer[index .. index + P - 1];
\* between periods index is a multiple of P not beyond length, so the loop
\* ends at index = length after length / P calls.
C17_ChunksPartitionBuffer ==
  LET P == period_size * channels
  IN  (variant \in {"hpp", "cpp"} /\ running /\ P > 0 /\ length % P = 0) =>
        /\ index % P = 0
        /\ index <= length
        /\ (apc \in {"ps_write", "resume", "sleep"}) =>
              /\ index + P <= length
              /\ samples = SubSeq(buffer, index + 1, index + P)

\* C18: inside playSamples, with written the number of frames this call
\* has handed to the hardware: at every iteration written + count =
\* period_size, ptr is at offset written x channels, and the hardware has
\* received exactly samples[0 .. ptr) of this period, in order; a
\* would-block result changes none of ptr, count and what the hardware has
\* received; and when the loop ends by count reaching 0 the hardware has
\* received the whole sample buffer, period_size frames, each once and in
\* order.
C18_LoopInvariant ==
  /\ [] ((apc \in {"ps_write", "resume", "sleep"}) =>
           LET given == Len(hwLog) - hwMark
               written == given \div channels
           IN  /\ given % channels = 0
               /\ count > 0
               /\ written + count = period_size
               /\ ptr = written * channels
               /\ SubSeq(hwLog, hwMark + 1, Len(hwLog)) =
                    SubSeq(samples, 1, ptr))
  /\ [][ /\ (apc = "ps_write" /\ frames' = NegEAGAIN) =>
               UNCHANGED <<ptr, count, hwLog, hwMark, samples>>
         /\ (/\ apc = "ps_write"
             /\ apc' \in {"idle", "play_loop"}
             /\ xruns' = xruns) =>
               /\ Len(hwLog') = hwMark + period_size * channels
               /\ SubSeq(hwLog', hwMark + 1, Len(hwLog')) = samples
               /\ hwMark' = hwMark
               /\ lost' = lost
       ]_vars

\* C18 witness: a period of two frames, of which the first was accepted by
\* one write and the next write answered would-block; the loop is at its
\* head with one frame left
C18_Witness ==
  /\ apc = "ps_write"
  /\ period_size = 2
  /\ frames = NegEAGAIN
  /\ count = 1
  /\ ptr = channels
  /\ Len(hwLog) = hwMark + channels
  /\ running

\* ------------------------------------------------------------------------
\* Temporal properties of the MidiController
\* ------------------------------------------------------------------------

\* _midi_event_process applied to each event of a sequence
Normalized(raw) == [i \in 1..Len(raw) |-> _midi_event_process(raw[i])]

\* The raw events read whose input() call has pushed, or is past pushing
ReadAndPassed ==
  IF tpc \in {"input_lock", "input_push"}
    THEN SubSeq(rawRead, 1, Len(rawRead) - 1)
    ELSE rawRead

\* C19: while the controller is collecting, every raw event the MIDI input
\* delivers is eventually read and passed to input(), exactly once and in
\* arrival order (the events read, then those still buffered, are the
\* events delivered, and the events passed to input() are the normalised
\* events read); the pending count is queried only in the step that makes
\* the first successful read of a drain pass; a drain pass reads exactly
\* the events that were pending at that point, so that none of them is
\* left in the input buffer when the pass ends; events that arrive during
\* a pass are read by a later one.
C19_EveryEventPassedOnce ==
  /\ [] /\ delivered = rawRead \o seqInput \o seqFifo
        /\ inputSeq = Normalized(ReadAndPassed)
        /\ (tpc = "loop") => seqInput = <<>>
  /\ [][ (set_pending' /\ ~set_pending) =>
            /\ tpc = "read"
            /\ Len(rawRead') = Len(rawRead) + 1
            /\ events_pending' = Len(seqInput')
       ]_vars
  /\ \A k \in 1..MaxEvents :
       (arrived >= k) ~>
          (Len(inputSeq) >= k \/ ~_eventThreadWorking \/ ~running)

\* C20: shutdown ends and is ordered.  Once the destructor has cleared the
\* flag, the capture thread leaves its loop and the destructor gets past
\* the join and closes the sequencer (unless exit() ends the process
\* first); the join is passed, and the sequencer closed, only when the
\* thread function has returned; and every read of the capture thread
\* finds the sequencer open.
C20_ShutdownEndsInOrder ==
  /\ [] /\ (rpc \in {"close", "destroyed"}) => tpc = "done"
        /\ (_sequencer = "closed") => (tpc = "done" /\ rpc = "destroyed")
  /\ [][ (tpc = "read" /\ (tpc' # tpc \/ r' # r)) => _sequencer = "open"
       ]_vars
  /\ (~_eventThreadWorking) ~> (tpc = "done" \/ ~running)
  /\ (~_eventThreadWorking) ~> (rpc = "destroyed" \/ ~running)

\* C20 witness: the flag was cleared while events were still to be read;
\* the thread read it stale once, pushed an event after the clearing, then
\* returned; the join was passed and the sequencer closed
C20_Witness ==
  /\ rpc = "destroyed"
  /\ tpc = "done"
  /\ _sequencer = "closed"
  /\ ~_eventThreadWorking
  /\ staleReads >= 1
  /\ pushedAfterShutdown >= 1
  /\ running
====
